---- MODULE Spec2Model ----
(***************************************************************************)
(* The adaptor layer of llm-ls (crates/llm-ls/src/adaptors.rs): request    *)
(* body and header construction and response parsing for the HuggingFace,  *)
(* TGI, Ollama and OpenAI backends.                                        *)
(*                                                                         *)
(* Every function of the layer is pure, so the state machine records the   *)
(* last call made and what it returned: one action per public function     *)
(* (adapt_body, adapt_headers, parse_generations) and one for the Display  *)
(* implementation of OpenAIError, each drawing its arguments from bounded  *)
(* sets.                                                                   *)
(*                                                                         *)
(* Representation.                                                         *)
(*   - A JSON document is a tagged record: [null], [str], [num], [arr],    *)
(*     [obj]; an object is the sequence of its <<key, value>> members in   *)
(*     text order (what serde buffers before trying the variants of an     *)
(*     untagged enum), so duplicate keys are representable.                *)
(*   - A response text is either Malformed (not JSON) or a JSON document.  *)
(*   - Header values are sequences of bytes, because validity of a header  *)
(*     value is decided byte by byte.                                      *)
(*   - A Rust Result is [Ok |-> v] or [Err |-> variant, ...]; a panic is   *)
(*     [Panic |-> message].  The three Ok types are told apart by their    *)
(*     own tag: a serde_json object is [object |-> fields], a HeaderMap    *)
(*     [headers |-> entries], a Vec<Generation> [vec |-> elements], and    *)
(*     the rendered text of an error [string |-> text].                    *)
(***************************************************************************)
EXTENDS Integers, Sequences, FiniteSets, TLC

VARIABLES call, result

vars == <<call, result>>

\* ------------------------------------------------------------------ bounds

\* Longest array (generations, choices, detail records) in a response.
MaxArr == 2
\* Longest stop_tokens list.
MaxStop == 2
\* Longest api token, in bytes.
MaxTokenLen == 2

\* --------------------------------------------------------------- JSON data

JNull == [null |-> TRUE]
JStr(s) == [str |-> s]
JNum(n) == [num |-> n]
JArr(a) == [arr |-> a]
JObj(m) == [obj |-> m]

IsStr(v) == "str" \in DOMAIN v
IsNum(v) == "num" \in DOMAIN v
IsArr(v) == "arr" \in DOMAIN v
IsObj(v) == "obj" \in DOMAIN v

\* A response text that is not JSON at all.
Malformed == [malformed |-> TRUE]

\* The members of the object members m whose key is k, in text order.
Entries(m, k) == SelectSeq(m, LAMBDA e : e[1] = k)

\* Rust results.
Ok(v) == [Ok |-> v]
Err(variant, e) == [Err |-> variant, e |-> e]
IsOk(r) == "Ok" \in DOMAIN r
IsErr(r) == "Err" \in DOMAIN r
IsPanic(r) == "Panic" \in DOMAIN r

\* Vec<Generation>
Vec(elements) == [vec |-> elements]

\* serde_json::Value::Object, as json!({ .. }) builds it.
JsonObject(fields) == [object |-> fields]

\* Outcome of one deserialization attempt.
Parsed(x) == [ok |-> TRUE, val |-> x]
NoMatch == [ok |-> FALSE]

\* ------------------------------------------------- serde: derived Deserialize

\* String: a JSON string only.
DeString(v) == IF IsStr(v) THEN Parsed(v.str) ELSE NoMatch

\* u32: a JSON integer in 0..2^32-1.  Every integer of this model is below
\* 2^31, so only the sign decides.
DeU32(v) == IF IsNum(v) /\ v.num >= 0 THEN Parsed(v.num) ELSE NoMatch

\* The raw field values of a struct with the named fields, as serde's derived
\* visitor collects them.  visit_map: every field exactly once (a repeated field
\* is "duplicate field", an absent one "missing field"), unknown keys ignored.
\* visit_seq: the fields by position, the array holding exactly that many
\* elements.  Anything else is "invalid type".
StructContent(names, v) ==
    IF IsObj(v)
    THEN IF \A i \in 1..Len(names) : Len(Entries(v.obj, names[i])) = 1
         THEN Parsed([i \in 1..Len(names) |-> Entries(v.obj, names[i])[1][2]])
         ELSE NoMatch
    ELSE IF IsArr(v)
    THEN IF Len(v.arr) = Len(names) THEN Parsed(v.arr) ELSE NoMatch
    ELSE NoMatch

\* struct Generation { generated_text: String }
DeGeneration(v) ==
    LET c == StructContent(<<"generated_text">>, v) IN
    IF c.ok /\ DeString(c.val[1]).ok
    THEN Parsed([generated_text |-> DeString(c.val[1]).val])
    ELSE NoMatch

\* Vec<Generation>
DeVecGeneration(v) ==
    IF IsArr(v) /\ \A i \in 1..Len(v.arr) : DeGeneration(v.arr[i]).ok
    THEN Parsed([i \in 1..Len(v.arr) |-> DeGeneration(v.arr[i]).val])
    ELSE NoMatch

\* struct APIError { error: String }
DeAPIError(v) ==
    LET c == StructContent(<<"error">>, v) IN
    IF c.ok /\ DeString(c.val[1]).ok
    THEN Parsed([error |-> DeString(c.val[1]).val])
    ELSE NoMatch

\* #[serde(untagged)] enum APIResponse { Generation, Generations, Error }:
\* the variants are tried in declaration order and the first that
\* deserializes wins.
DeAPIResponse(v) ==
    IF DeGeneration(v).ok THEN Parsed([Generation |-> DeGeneration(v).val])
    ELSE IF DeVecGeneration(v).ok THEN Parsed([Generations |-> DeVecGeneration(v).val])
    ELSE IF DeAPIError(v).ok THEN Parsed([Error |-> DeAPIError(v).val])
    ELSE NoMatch

\* struct OllamaGeneration { response: String }
DeOllamaGeneration(v) ==
    LET c == StructContent(<<"response">>, v) IN
    IF c.ok /\ DeString(c.val[1]).ok
    THEN Parsed([response |-> DeString(c.val[1]).val])
    ELSE NoMatch

\* #[serde(untagged)] enum OllamaAPIResponse { Generation, Error }
DeOllamaAPIResponse(v) ==
    IF DeOllamaGeneration(v).ok THEN Parsed([Generation |-> DeOllamaGeneration(v).val])
    ELSE IF DeAPIError(v).ok THEN Parsed([Error |-> DeAPIError(v).val])
    ELSE NoMatch

\* struct OpenAIGenerationChoice { text: String }
DeOpenAIGenerationChoice(v) ==
    LET c == StructContent(<<"text">>, v) IN
    IF c.ok /\ DeString(c.val[1]).ok
    THEN Parsed([text |-> DeString(c.val[1]).val])
    ELSE NoMatch

\* struct OpenAIGeneration { choices: Vec<OpenAIGenerationChoice> }
DeOpenAIGeneration(v) ==
    LET c == StructContent(<<"choices">>, v) IN
    IF /\ c.ok
       /\ IsArr(c.val[1])
       /\ \A i \in 1..Len(c.val[1].arr) : DeOpenAIGenerationChoice(c.val[1].arr[i]).ok
    THEN Parsed([choices |-> [i \in 1..Len(c.val[1].arr) |->
                                DeOpenAIGenerationChoice(c.val[1].arr[i]).val]])
    ELSE NoMatch

\* #[serde(untagged)] enum OpenAIErrorLoc { String(String), Int(u32) }
DeOpenAIErrorLoc(v) ==
    IF DeString(v).ok THEN Parsed([String |-> DeString(v).val])
    ELSE IF DeU32(v).ok THEN Parsed([Int |-> DeU32(v).val])
    ELSE NoMatch

\* struct OpenAIErrorDetail { loc: OpenAIErrorLoc, msg: String, r#type: String }
DeOpenAIErrorDetail(v) ==
    LET c == StructContent(<<"loc", "msg", "type">>, v) IN
    IF /\ c.ok
       /\ DeOpenAIErrorLoc(c.val[1]).ok
       /\ DeString(c.val[2]).ok
       /\ DeString(c.val[3]).ok
    THEN Parsed([loc |-> DeOpenAIErrorLoc(c.val[1]).val,
                 msg |-> DeString(c.val[2]).val,
                 type |-> DeString(c.val[3]).val])
    ELSE NoMatch

\* struct OpenAIError { detail: Vec<OpenAIErrorDetail> }
DeOpenAIError(v) ==
    LET c == StructContent(<<"detail">>, v) IN
    IF /\ c.ok
       /\ IsArr(c.val[1])
       /\ \A i \in 1..Len(c.val[1].arr) : DeOpenAIErrorDetail(c.val[1].arr[i]).ok
    THEN Parsed([detail |-> [i \in 1..Len(c.val[1].arr) |->
                               DeOpenAIErrorDetail(c.val[1].arr[i]).val]])
    ELSE NoMatch

\* #[serde(untagged)] enum OpenAIAPIResponse { Generation, Error }
DeOpenAIAPIResponse(v) ==
    IF DeOpenAIGeneration(v).ok THEN Parsed([Generation |-> DeOpenAIGeneration(v).val])
    ELSE IF DeOpenAIError(v).ok THEN Parsed([Error |-> DeOpenAIError(v).val])
    ELSE NoMatch

\* The error `?` returns when serde_json::from_str fails: the text is not
\* JSON, or no variant of the untagged enum matched.
SerdeJsonError == [Err |-> "SerdeJson"]

\* ------------------------------------------------------- response parsers

\* impl From<OllamaGeneration> for Generation
FromOllamaGeneration(value) == [generated_text |-> value.response]

\* impl From<OpenAIGenerationChoice> for Generation
FromOpenAIGenerationChoice(value) == [generated_text |-> value.text]

\* parse_tgi_text accepting the list like parse_api_text.
parse_tgi_text_AcceptsList(text) ==
    IF text = Malformed \/ ~DeAPIResponse(text).ok THEN SerdeJsonError
    ELSE LET r == DeAPIResponse(text).val IN
         IF "Generation" \in DOMAIN r THEN Ok(Vec(<<r.Generation>>))
         ELSE IF "Generations" \in DOMAIN r THEN Ok(Vec(r.Generations))
         ELSE Err("Tgi", r.Error)

parse_tgi_text(text) ==
    IF text = Malformed \/ ~DeAPIResponse(text).ok THEN SerdeJsonError
    ELSE LET r == DeAPIResponse(text).val IN
         IF "Generation" \in DOMAIN r THEN Ok(Vec(<<r.Generation>>))
         ELSE IF "Generations" \in DOMAIN r THEN [Err |-> "InvalidAdaptor"]
         ELSE Err("Tgi", r.Error)

parse_api_text(text) ==
    IF text = Malformed \/ ~DeAPIResponse(text).ok THEN SerdeJsonError
    ELSE LET r == DeAPIResponse(text).val IN
         IF "Generation" \in DOMAIN r THEN Ok(Vec(<<r.Generation>>))
         ELSE IF "Generations" \in DOMAIN r THEN Ok(Vec(r.Generations))
         ELSE Err("InferenceApi", r.Error)

parse_ollama_text(text) ==
    IF text = Malformed \/ ~DeOllamaAPIResponse(text).ok THEN SerdeJsonError
    ELSE LET r == DeOllamaAPIResponse(text).val IN
         IF "Generation" \in DOMAIN r THEN Ok(Vec(<<FromOllamaGeneration(r.Generation)>>))
         ELSE Err("Ollama", r.Error)

\* parse_openai_text collecting the choices last to first.
parse_openai_text_Reversed(text) ==
    IF text = Malformed \/ ~DeOpenAIAPIResponse(text).ok THEN SerdeJsonError
    ELSE LET r == DeOpenAIAPIResponse(text).val IN
         IF "Generation" \in DOMAIN r
         THEN Ok(Vec([i \in 1..Len(r.Generation.choices) |->
                        FromOpenAIGenerationChoice(
                            r.Generation.choices[Len(r.Generation.choices) + 1 - i])]))
         ELSE Err("OpenAI", r.Error)

parse_openai_text(text) ==
    IF text = Malformed \/ ~DeOpenAIAPIResponse(text).ok THEN SerdeJsonError
    ELSE LET r == DeOpenAIAPIResponse(text).val IN
         IF "Generation" \in DOMAIN r
         THEN Ok(Vec([i \in 1..Len(r.Generation.choices) |->
                        FromOpenAIGenerationChoice(r.Generation.choices[i])]))
         ELSE Err("OpenAI", r.Error)

\* ---------------------------------------------------------- body builders

\* Option<T>
NoneOpt == [none |-> TRUE]
Some(x) == [some |-> x]
IsSome(o) == "some" \in DOMAIN o

\* serde_json::Map::get: the value under the key, if any (a Map holds a key
\* at most once).
MapGet(m, k) == IF Entries(m, k) = << >> THEN NoneOpt ELSE Some(Entries(m, k)[1][2])

\* json!(<Option<&Value>>): the value, or null for None.
JsonOfOption(o) == IF IsSome(o) THEN o.some ELSE JNull

\* build_tgi_body with top_p copied from temperature.
build_tgi_body_TopPFromTemperature(prompt, params) ==
    JsonObject([inputs |-> prompt,
                parameters |-> [max_new_tokens |-> params.max_new_tokens,
                                temperature |-> params.temperature,
                                do_sample |-> params.do_sample,
                                top_p |-> params.temperature,
                                stop_tokens |-> params.stop_tokens]])

build_tgi_body(prompt, params) ==
    JsonObject([inputs |-> prompt,
                parameters |-> [max_new_tokens |-> params.max_new_tokens,
                                temperature |-> params.temperature,
                                do_sample |-> params.do_sample,
                                top_p |-> params.top_p,
                                stop_tokens |-> params.stop_tokens]])

build_api_body(prompt, params) == build_tgi_body(prompt, params)

\* request_body.as_ref().ok_or_else(..).expect(..) panics on None; .get("model")
\* on the map is an Option that json! writes as the value or as null.
build_ollama_body(prompt, params) ==
    IF ~IsSome(params.request_body)
    THEN [Panic |-> "Unable to make request for ollama"]
    ELSE JsonObject(
            [prompt |-> prompt,
             model |-> JsonOfOption(MapGet(params.request_body.some, "model")),
             stream |-> FALSE,
             options |-> [num_predict |-> params.request_params.max_new_tokens,
                          temperature |-> params.request_params.temperature,
                          top_p |-> params.request_params.top_p,
                          stop |-> params.request_params.stop_tokens]])

build_openai_body(prompt, params) ==
    IF ~IsSome(params.request_body)
    THEN [Panic |-> "Unable to make request for openai"]
    ELSE JsonObject(
            [prompt |-> prompt,
             model |-> JsonOfOption(MapGet(params.request_body.some, "model")),
             max_tokens |-> params.request_params.max_new_tokens,
             temperature |-> params.request_params.temperature,
             top_p |-> params.request_params.top_p,
             stop |-> params.request_params.stop_tokens])

\* -------------------------------------------------------- header builders

\* Header names (http::header::USER_AGENT, AUTHORIZATION).
USER_AGENT == "user-agent"
AUTHORIZATION == "authorization"

\* The validity test without its DEL exclusion.
IsValidHeaderByte_AllowsDel(b) == b >= 32 \/ b = 9

\* b >= 32 && b != 127 || b == b'\t'  (http::HeaderValue::from_str)
IsValidHeaderByte(b) == (b >= 32 /\ b # 127) \/ b = 9

\* HeaderValue::from_str: the bytes, or InvalidHeaderValue.
HeaderValueFromStr(s) ==
    IF \A i \in 1..Len(s) : IsValidHeaderByte(s[i]) THEN Parsed(s) ELSE NoMatch

\* The error `?` returns when HeaderValue::from_str fails.
InvalidHeaderValueError == [Err |-> "InvalidHeaderValue"]

\* HeaderMap: a set of <<name, value>> entries, one value per name.
HeaderMapNew == [headers |-> {}]
HeaderMapInsert(h, name, value) ==
    [headers |-> {e \in h.headers : e[1] # name} \cup {<<name, value>>}]

\* CARGO_PKG_NAME, "llm-ls"
NAME == <<108, 108, 109, 45, 108, 115>>
\* CARGO_PKG_VERSION, "0.5.3"
VERSION == <<48, 46, 53, 46, 51>>

\* enum Ide and its derived Debug text.
Ides == {"Neovim", "VSCode", "Unknown"}
IdeDebug(ide) ==
    CASE ide = "Neovim" -> <<78, 101, 111, 118, 105, 109>>
      [] ide = "VSCode" -> <<86, 83, 67, 111, 100, 101>>
      [] ide = "Unknown" -> <<85, 110, 107, 110, 111, 119, 110>>

\* format!("{NAME}/{VERSION}; rust/unknown; ide/{ide:?}")
UserAgent(ide) ==
    NAME \o <<47>> \o VERSION
         \o <<59, 32, 114, 117, 115, 116, 47, 117, 110, 107, 110, 111, 119, 110,
              59, 32, 105, 100, 101, 47>>
         \o IdeDebug(ide)

\* format!("Bearer {api_token}")
BearerValue(api_token) == <<66, 101, 97, 114, 101, 114, 32>> \o api_token

\* build_tgi_headers that never sets Authorization.
build_tgi_headers_NoAuthorization(api_token, ide) ==
    LET ua == HeaderValueFromStr(UserAgent(ide)) IN
    IF ~ua.ok THEN InvalidHeaderValueError
    ELSE Ok(HeaderMapInsert(HeaderMapNew, USER_AGENT, ua.val))

build_tgi_headers(api_token, ide) ==
    LET ua == HeaderValueFromStr(UserAgent(ide)) IN
    IF ~ua.ok THEN InvalidHeaderValueError
    ELSE LET headers == HeaderMapInsert(HeaderMapNew, USER_AGENT, ua.val) IN
         IF IsSome(api_token)
         THEN LET auth == HeaderValueFromStr(BearerValue(api_token.some)) IN
              IF ~auth.ok THEN InvalidHeaderValueError
              ELSE Ok(HeaderMapInsert(headers, AUTHORIZATION, auth.val))
         ELSE Ok(headers)

build_api_headers(api_token, ide) == build_tgi_headers(api_token, ide)

build_ollama_headers == Ok(HeaderMapNew)

build_openai_headers(api_token, ide) == build_api_headers(api_token, ide)

\* ----------------------------------------------- Display for OpenAIError

Digits == <<"0", "1", "2", "3", "4", "5", "6", "7", "8", "9">>

\* Display for u32: the decimal digits, no sign, no leading zero.
RECURSIVE FmtU32(_)
FmtU32(i) == IF i < 10 THEN Digits[i + 1] ELSE FmtU32(i \div 10) \o Digits[(i % 10) + 1]

\* impl Display for OpenAIErrorLoc
FmtOpenAIErrorLoc(loc) ==
    IF "String" \in DOMAIN loc THEN loc.String ELSE FmtU32(loc.Int)

\* write!(f, "{}: {} ({})", item.loc, item.msg, item.r#type)
FmtDetailItem(item) ==
    FmtOpenAIErrorLoc(item.loc) \o ": " \o item.msg \o " (" \o item.type \o ")"

\* The separator written before the first record too.
FmtSeparator_Always(i) == "\n"

\* if i != 0 { writeln!(f)?; }
FmtSeparator(i) == IF i # 0 THEN "\n" ELSE ""

\* The loop of impl Display for OpenAIError from index i on, f holding what
\* was written so far.
RECURSIVE FmtLoop(_, _, _)
FmtLoop(detail, i, f) ==
    IF i >= Len(detail) THEN f
    ELSE FmtLoop(detail, i + 1, f \o FmtSeparator(i) \o FmtDetailItem(detail[i + 1]))

\* impl Display for OpenAIError
FmtOpenAIError(self) == FmtLoop(self.detail, 0, "")

\* ------------------------------------------------------------- dispatcher

\* enum Adaptor
Adaptors == {"HuggingFace", "Ollama", "OpenAi", "Tgi"}

\* The default moved to the other TGI-style variant.
AdaptorDefault_Tgi == "Tgi"

\* #[default] HuggingFace
AdaptorDefault == "HuggingFace"

\* adaptor.unwrap_or(&Adaptor::default())
Resolve(adaptor) == IF IsSome(adaptor) THEN adaptor.some ELSE AdaptorDefault

\* A builder's panic unwinds through adapt_body; otherwise Ok(body).
OkUnlessPanic(body) == IF IsPanic(body) THEN body ELSE Ok(body)

adapt_body(prompt, params) ==
    CASE Resolve(params.adaptor) = "HuggingFace" ->
            Ok(build_api_body(prompt, params.request_params))
      [] Resolve(params.adaptor) = "Ollama" ->
            OkUnlessPanic(build_ollama_body(prompt, params))
      [] Resolve(params.adaptor) = "OpenAi" ->
            OkUnlessPanic(build_openai_body(prompt, params))
      [] Resolve(params.adaptor) = "Tgi" ->
            Ok(build_tgi_body(prompt, params.request_params))

adapt_headers(adaptor, api_token, ide) ==
    CASE Resolve(adaptor) = "HuggingFace" -> build_api_headers(api_token, ide)
      [] Resolve(adaptor) = "Ollama" -> build_ollama_headers
      [] Resolve(adaptor) = "OpenAi" -> build_openai_headers(api_token, ide)
      [] Resolve(adaptor) = "Tgi" -> build_tgi_headers(api_token, ide)

parse_generations(adaptor, text) ==
    CASE Resolve(adaptor) = "HuggingFace" -> parse_api_text(text)
      [] Resolve(adaptor) = "Ollama" -> parse_ollama_text(text)
      [] Resolve(adaptor) = "OpenAi" -> parse_openai_text(text)
      [] Resolve(adaptor) = "Tgi" -> parse_tgi_text(text)

\* ------------------------------------------------------ bounded inputs

\* Sequences over S of length at most n.
SeqsUpTo(S, n) == UNION {[1..k -> S] : k \in 0..n}

\* One-member and two-member objects.
Obj1(k, v) == JObj(<< <<k, v>> >>)
Obj2(k1, v1, k2, v2) == JObj(<< <<k1, v1>>, <<k2, v2>> >>)

\* Member values of the flat objects: two strings and a non-string.
FlatValues == {JStr("hello"), JStr("oops"), JNum(12)}

\* Objects holding any subset of generated_text, error, response.
FlatObjects ==
    LET Member(k, o) == IF IsSome(o) THEN << <<k, o.some>> >> ELSE << >>
        Opt == {NoneOpt} \cup {Some(v) : v \in FlatValues}
    IN {JObj(Member("generated_text", g) \o Member("error", e) \o Member("response", r)) :
            g \in Opt, e \in Opt, r \in Opt}

\* Objects that repeat a key.
DuplicateKeyObjects ==
    {Obj2(k, JStr("hello"), k, JStr("oops")) : k \in {"generated_text", "error", "response"}}

\* Elements of arrays sent to the TGI-style parsers: generation objects (one
\* with a stray error member), an error object, a bare string and a
\* one-element array.
GenerationElems ==
    {Obj1("generated_text", JStr("hello")), Obj1("generated_text", JStr("oops")),
     Obj2("generated_text", JStr("hello"), "error", JStr("oops")),
     Obj1("error", JStr("oops")), JStr("hello"), JArr(<<JStr("hello")>>)}

ChoiceElems ==
    {Obj1("text", JStr("a")), Obj1("text", JStr("b")), Obj1("text", JNum(12)),
     JArr(<<JStr("a")>>)}

DetailObj(loc, msg, type) == JObj(<< <<"loc", loc>>, <<"msg", msg>>, <<"type", type>> >>)

\* Detail records: loc a string, a u32, a negative integer, null; one record
\* without its type; one written as an array.
DetailElems ==
    {DetailObj(JStr("body"), JStr("bad"), JStr("value_error")),
     DetailObj(JNum(1205), JStr("worse"), JStr("type_error")),
     DetailObj(JNum(0 - 1), JStr("bad"), JStr("value_error")),
     DetailObj(JNull, JStr("bad"), JStr("value_error")),
     Obj2("loc", JStr("body"), "msg", JStr("bad")),
     JArr(<<JStr("body"), JStr("bad"), JStr("value_error")>>)}

\* OpenAI-style objects: choices alone, detail alone, both in either order,
\* and choices beside an Ollama response.
OpenAIObjects ==
    {Obj1("choices", c) : c \in {JArr(a) : a \in SeqsUpTo(ChoiceElems, MaxArr)} \cup {JStr("a")}}
    \cup {Obj1("detail", d) : d \in {JArr(a) : a \in SeqsUpTo(DetailElems, MaxArr)} \cup {JNull}}
    \cup {Obj2("choices", JArr(c), "detail", JArr(d)) :
            c \in SeqsUpTo(ChoiceElems, MaxArr),
            d \in {<<DetailObj(JStr("body"), JStr("bad"), JStr("value_error"))>>,
                   <<DetailObj(JNull, JStr("bad"), JStr("value_error"))>>}}
    \cup {Obj2("detail", JArr(<<DetailObj(JNum(12), JStr("bad"), JStr("value_error"))>>),
               "choices", JArr(<<Obj1("text", JNum(12))>>)),
          Obj2("response", JStr("hello"), "choices", JArr(<<Obj1("text", JStr("a"))>>))}

\* The response texts handed to parse_generations.
Texts ==
    {Malformed, JNull, JStr("hello"), JNum(12)}
    \cup FlatObjects \cup DuplicateKeyObjects
    \cup {JArr(a) : a \in SeqsUpTo(GenerationElems, MaxArr)}
    \cup OpenAIObjects

OptAdaptors == {NoneOpt} \cup {Some(a) : a \in Adaptors}

\* RequestParams values.
RequestParamsSet ==
    [max_new_tokens : {60, 128}, temperature : {2, 7}, do_sample : BOOLEAN,
     top_p : {9, 10}, stop_tokens : SeqsUpTo({"<|endoftext|>", "</s>"}, MaxStop)]

\* The caller's opaque request_body: absent, without a model, with one.
RequestBodies ==
    {NoneOpt, Some(<< >>), Some(<< <<"keep_alive", JNum(5)>> >>),
     Some(<< <<"model", JStr("codellama")>> >>),
     Some(<< <<"keep_alive", JNum(5)>>, <<"model", JStr("starcoder")>> >>),
     Some(<< <<"model", JNull>> >>)}

Prompts == {"def f(", "fn main"}

\* Api tokens over NUL, tab, newline, a letter and DEL.
Tokens == SeqsUpTo({0, 9, 10, 97, 127}, MaxTokenLen)
OptTokens == {NoneOpt} \cup {Some(t) : t \in Tokens}

\* ------------------------------------------------------------ the machine

\* No call is in progress: the state after construction and after every return.
Idle == [fn |-> "none"]
NoResult == [none |-> TRUE]

Init ==
    /\ call = Idle
    /\ result = NoResult

\* The layer is synchronous: a call runs to completion before the caller
\* makes the next one.
AdaptBody ==
    /\ call = Idle
    /\ \E prompt \in Prompts, adaptor \in OptAdaptors,
          request_params \in RequestParamsSet, request_body \in RequestBodies :
        LET params == [adaptor |-> adaptor, request_params |-> request_params,
                       request_body |-> request_body]
        IN /\ call' = [fn |-> "adapt_body", prompt |-> prompt, params |-> params]
           /\ result' = adapt_body(prompt, params)

AdaptHeaders ==
    /\ call = Idle
    /\ \E adaptor \in OptAdaptors, api_token \in OptTokens, ide \in Ides :
        /\ call' = [fn |-> "adapt_headers", adaptor |-> adaptor,
                    api_token |-> api_token, ide |-> ide]
        /\ result' = adapt_headers(adaptor, api_token, ide)

ParseGenerations ==
    /\ call = Idle
    /\ \E adaptor \in OptAdaptors, text \in Texts :
        /\ call' = [fn |-> "parse_generations", adaptor |-> adaptor, text |-> text]
        /\ result' = parse_generations(adaptor, text)

\* The caller renders the OpenAI error that parse_generations returned.
DisplayOpenAIError ==
    /\ call.fn = "parse_generations"
    /\ IsErr(result)
    /\ result.Err = "OpenAI"
    /\ call' = [fn |-> "fmt", self |-> result.e, text |-> call.text]
    /\ result' = [string |-> FmtOpenAIError(result.e)]

\* The caller has consumed the result.  A panic unwinds the caller instead.
Return ==
    /\ call # Idle
    /\ ~IsPanic(result)
    /\ call' = Idle
    /\ result' = NoResult

Next == AdaptBody \/ AdaptHeaders \/ ParseGenerations \/ DisplayOpenAIError \/ Return

Spec == Init /\ [][Next]_vars

\* ------------------------------------------------ the documented shapes

\* The backend a selector stands for: the HuggingFace API when absent.
Selected(adaptor) == IF adaptor = NoneOpt THEN "HuggingFace" ELSE adaptor.some

\* Positions of the members of object v named k.
Members(v, k) == {i \in 1..Len(v.obj) : v.obj[i][1] = k}
HasOne(v, k) == IsObj(v) /\ Cardinality(Members(v, k)) = 1
Member(v, k) == v.obj[CHOOSE i \in Members(v, k) : TRUE][2]
HasString(v, k) == HasOne(v, k) /\ IsStr(Member(v, k))

\* A generation object, a list of them, the shared error object.
ShapeGeneration(v) == HasString(v, "generated_text")
ShapeGenerationList(v) == IsArr(v) /\ \A i \in 1..Len(v.arr) : ShapeGeneration(v.arr[i])
ShapeError(v) == HasString(v, "error")

\* Ollama's success object.
ShapeOllamaGeneration(v) == HasString(v, "response")

\* OpenAI's success object: a choices array of {text} objects.
ShapeOpenAIGeneration(v) ==
    /\ HasOne(v, "choices")
    /\ IsArr(Member(v, "choices"))
    /\ \A i \in 1..Len(Member(v, "choices").arr) : HasString(Member(v, "choices").arr[i], "text")

\* OpenAI's error object: a detail array of {loc, msg, type} objects, loc a
\* string or a non-negative integer.
ShapeDetail(v) ==
    /\ HasOne(v, "loc")
    /\ IsStr(Member(v, "loc")) \/ (IsNum(Member(v, "loc")) /\ Member(v, "loc").num >= 0)
    /\ HasString(v, "msg")
    /\ HasString(v, "type")
ShapeOpenAIError(v) ==
    /\ HasOne(v, "detail")
    /\ IsArr(Member(v, "detail"))
    /\ \A i \in 1..Len(Member(v, "detail").arr) : ShapeDetail(Member(v, "detail").arr[i])

\* What the documented shapes carry.
GenerationOf(v) == [generated_text |-> Member(v, "generated_text").str]
ErrorOf(v) == [error |-> Member(v, "error").str]
ChoicesOf(v) == Member(v, "choices").arr
DetailsOf(v) == Member(v, "detail").arr
DetailOf(d) ==
    [loc |-> IF IsStr(Member(d, "loc")) THEN [String |-> Member(d, "loc").str]
             ELSE [Int |-> Member(d, "loc").num],
     msg |-> Member(d, "msg").str,
     type |-> Member(d, "type").str]

\* ----------------------------------------------------------------- claims

\* The body documented for the TGI-style backends.
TgiWireShape(prompt, p) ==
    [inputs |-> prompt,
     parameters |-> [max_new_tokens |-> p.max_new_tokens, temperature |-> p.temperature,
                     do_sample |-> p.do_sample, top_p |-> p.top_p,
                     stop_tokens |-> p.stop_tokens]]

\* The request_body is present and holds a model member.
ModelBearing(request_body) ==
    /\ request_body # NoneOpt
    /\ \E i \in 1..Len(request_body.some) : request_body.some[i][1] = "model"
ModelOf(request_body) ==
    request_body.some[CHOOSE i \in 1..Len(request_body.some) :
                          request_body.some[i][1] = "model"][2]

\* C1: adapt_body returns exactly the documented wire shape of the selected
\* backend: {inputs, parameters{max_new_tokens, temperature, do_sample, top_p,
\* stop_tokens}} for HuggingFace and Tgi alike; for Ollama and OpenAi, given a
\* request_body that holds a model, {prompt, model, stream: false,
\* options{num_predict, temperature, top_p, stop}} and {prompt, model,
\* max_tokens, temperature, top_p, stop}, model being request_body.model.
C1_BodyWireShape ==
    call.fn = "adapt_body" =>
        LET p == call.params.request_params
            rb == call.params.request_body
            backend == Selected(call.params.adaptor)
        IN /\ backend \in {"HuggingFace", "Tgi"} =>
                result = Ok(JsonObject(TgiWireShape(call.prompt, p)))
           /\ (backend = "Ollama" /\ ModelBearing(rb)) =>
                result = Ok(JsonObject([prompt |-> call.prompt,
                                        model |-> ModelOf(rb),
                                        stream |-> FALSE,
                                        options |-> [num_predict |-> p.max_new_tokens,
                                                     temperature |-> p.temperature,
                                                     top_p |-> p.top_p,
                                                     stop |-> p.stop_tokens]]))
           /\ (backend = "OpenAi" /\ ModelBearing(rb)) =>
                result = Ok(JsonObject([prompt |-> call.prompt,
                                        model |-> ModelOf(rb),
                                        max_tokens |-> p.max_new_tokens,
                                        temperature |-> p.temperature,
                                        top_p |-> p.top_p,
                                        stop |-> p.stop_tokens]))

\* An Ollama body built from a request_body that names the model, with two
\* stop tokens.
C1_Witness ==
    /\ call.fn = "adapt_body"
    /\ call.params.adaptor = Some("Ollama")
    /\ ModelBearing(call.params.request_body)
    /\ Len(call.params.request_params.stop_tokens) = 2
    /\ IsOk(result)
    /\ result.Ok.object.model = JStr("starcoder")
    /\ result.Ok.object.options.top_p # result.Ok.object.options.temperature

\* C2: with the selector absent, adapt_body, adapt_headers and
\* parse_generations return what they return under the HuggingFace selector;
\* an array of generations is accepted.
C2_AbsentSelectorIsHuggingFace ==
    /\ (call.fn = "adapt_body" /\ call.params.adaptor = NoneOpt) =>
            result = adapt_body(call.prompt,
                                [call.params EXCEPT !.adaptor = Some("HuggingFace")])
    /\ (call.fn = "adapt_headers" /\ call.adaptor = NoneOpt) =>
            result = adapt_headers(Some("HuggingFace"), call.api_token, call.ide)
    /\ (call.fn = "parse_generations" /\ call.adaptor = NoneOpt) =>
            /\ result = parse_generations(Some("HuggingFace"), call.text)
            /\ ShapeGenerationList(call.text) => IsOk(result)

\* An array of two generations parsed with no selector.
C2_Witness ==
    /\ call.fn = "parse_generations"
    /\ call.adaptor = NoneOpt
    /\ ShapeGenerationList(call.text)
    /\ Len(call.text.arr) = 2
    /\ IsOk(result)
    /\ Len(result.Ok.vec) = 2

\* C3: under Tgi an array of generation objects, of any length, is the
\* adaptor-mismatch error InvalidAdaptor; under HuggingFace the same payload
\* is accepted.
C3_TgiRejectsList ==
    (call.fn = "parse_generations" /\ ShapeGenerationList(call.text)) =>
        /\ call.adaptor = Some("Tgi") => result = [Err |-> "InvalidAdaptor"]
        /\ call.adaptor = Some("HuggingFace") => IsOk(result)

\* A one-element array rejected under Tgi.
C3_Witness ==
    /\ call.fn = "parse_generations"
    /\ call.adaptor = Some("Tgi")
    /\ ShapeGenerationList(call.text)
    /\ Len(call.text.arr) = 1
    /\ result = [Err |-> "InvalidAdaptor"]

\* C4: a successful parse returns the payload's texts in source order and
\* number: one Generation for a HuggingFace or Tgi generation object, n in
\* array order for a HuggingFace array of n, one with the response verbatim
\* for Ollama, one per choice in order for OpenAi.
C4_GenerationsInSourceOrder ==
    call.fn = "parse_generations" =>
        LET backend == Selected(call.adaptor)
            text == call.text
        IN /\ (backend \in {"HuggingFace", "Tgi"} /\ ShapeGeneration(text)) =>
                result = Ok(Vec(<<GenerationOf(text)>>))
           /\ (backend = "HuggingFace" /\ ShapeGenerationList(text)) =>
                result = Ok(Vec([i \in 1..Len(text.arr) |-> GenerationOf(text.arr[i])]))
           /\ (backend = "Ollama" /\ ShapeOllamaGeneration(text)) =>
                result = Ok(Vec(<<[generated_text |-> Member(text, "response").str]>>))
           /\ (backend = "OpenAi" /\ ShapeOpenAIGeneration(text)) =>
                result = Ok(Vec([i \in 1..Len(ChoicesOf(text)) |->
                                   [generated_text |-> Member(ChoicesOf(text)[i], "text").str]]))

\* Two different choices returned in their order.
C4_Witness ==
    /\ call.fn = "parse_generations"
    /\ call.adaptor = Some("OpenAi")
    /\ ShapeOpenAIGeneration(call.text)
    /\ result = Ok(Vec(<<[generated_text |-> "a"], [generated_text |-> "b"]>>))

\* C5: adapt_body for Ollama or OpenAi with the request_body absent, or
\* present without a model member, fails and returns no request body.
C5_MissingModelFails ==
    (/\ call.fn = "adapt_body"
     /\ Selected(call.params.adaptor) \in {"Ollama", "OpenAi"}
     /\ ~ModelBearing(call.params.request_body)) => ~IsOk(result)

\* C6: a payload of the selected backend's error shape, and not of its
\* success shape, yields the error variant tagged with that backend
\* (InferenceApi, Tgi, Ollama, OpenAI) carrying the payload's error content
\* unchanged, never generations and never another backend's tag.
C6_ErrorTaggedWithBackend ==
    call.fn = "parse_generations" =>
        LET backend == Selected(call.adaptor)
            text == call.text
        IN /\ (/\ backend = "HuggingFace"
               /\ ShapeError(text)
               /\ ~ShapeGeneration(text)
               /\ ~ShapeGenerationList(text)) =>
                    result = Err("InferenceApi", ErrorOf(text))
           /\ (backend = "Tgi" /\ ShapeError(text) /\ ~ShapeGeneration(text)) =>
                    result = Err("Tgi", ErrorOf(text))
           /\ (backend = "Ollama" /\ ShapeError(text) /\ ~ShapeOllamaGeneration(text)) =>
                    result = Err("Ollama", ErrorOf(text))
           /\ (backend = "OpenAi" /\ ShapeOpenAIError(text) /\ ~ShapeOpenAIGeneration(text)) =>
                    result = Err("OpenAI",
                                 [detail |-> [i \in 1..Len(DetailsOf(text)) |->
                                                DetailOf(DetailsOf(text)[i])]])

\* The header values that are valid: no control byte but tab, no DEL.
ValidValue(value) == \A i \in 1..Len(value) : value[i] \notin ((0..31) \ {9}) \cup {127}

\* The values a header map holds under a name.
ValuesOf(headers, name) == {e[2] : e \in {x \in headers : x[1] = name}}

\* "Bearer " followed by the token.
BearerOf(token) == <<66, 101, 97, 114, 101, 114, 32>> \o token

\* C7: for HuggingFace, Tgi, OpenAi and the absent selector a successful
\* adapt_headers holds a User-Agent, and an Authorization "Bearer <token>"
\* exactly when a token was supplied; for Ollama the result is the empty
\* header set, token or not.
C7_HeadersPerBackend ==
    call.fn = "adapt_headers" =>
        /\ Selected(call.adaptor) = "Ollama" => result = Ok([headers |-> {}])
        /\ (Selected(call.adaptor) # "Ollama" /\ IsOk(result)) =>
              /\ Cardinality(ValuesOf(result.Ok.headers, "user-agent")) = 1
              /\ call.api_token = NoneOpt => ValuesOf(result.Ok.headers, "authorization") = {}
              /\ call.api_token # NoneOpt =>
                    ValuesOf(result.Ok.headers, "authorization") = {BearerOf(call.api_token.some)}
              /\ \A e \in result.Ok.headers : e[1] \in {"user-agent", "authorization"}
        /\ (Selected(call.adaptor) # "Ollama" /\ call.api_token = NoneOpt) => IsOk(result)
        /\ (/\ Selected(call.adaptor) # "Ollama"
            /\ call.api_token # NoneOpt
            /\ ValidValue(call.api_token.some)) => IsOk(result)

\* A token supplied to the HuggingFace builder and sent as Bearer.
C7_Witness ==
    /\ call.fn = "adapt_headers"
    /\ call.adaptor = Some("HuggingFace")
    /\ call.api_token = Some(<<97, 9>>)
    /\ IsOk(result)
    /\ ValuesOf(result.Ok.headers, "authorization") = {BearerOf(<<97, 9>>)}

\* The token holds a byte no header value may hold.
BadToken(api_token) == api_token # NoneOpt /\ ~ValidValue(api_token.some)

\* C8 as claimed: adapt_headers given a token with a newline, or another
\* byte not allowed in a header value, returns a header-construction error
\* and no header set; every header set returned holds only valid values.
C8_BadTokenAlwaysFails ==
    call.fn = "adapt_headers" =>
        /\ BadToken(call.api_token) => result = [Err |-> "InvalidHeaderValue"]
        /\ IsOk(result) => \A e \in result.Ok.headers : ValidValue(e[2])

\* C8 amended: for HuggingFace, Tgi, OpenAi and the absent selector a token
\* with a newline, or another byte not allowed in a header value, yields a
\* header-construction error and no header set; for Ollama the token is not
\* read and the empty header set is returned; every header set returned
\* holds only valid values.
C8_BadTokenFailsUnlessOllama ==
    call.fn = "adapt_headers" =>
        /\ (Selected(call.adaptor) # "Ollama" /\ BadToken(call.api_token)) =>
                result = [Err |-> "InvalidHeaderValue"]
        /\ (Selected(call.adaptor) = "Ollama" /\ BadToken(call.api_token)) =>
                result = Ok([headers |-> {}])
        /\ IsOk(result) => \A e \in result.Ok.headers : ValidValue(e[2])

\* A token with a newline refused by the OpenAi builder.
C8_Witness ==
    /\ call.fn = "adapt_headers"
    /\ call.adaptor = Some("OpenAi")
    /\ call.api_token = Some(<<97, 10>>)
    /\ result = [Err |-> "InvalidHeaderValue"]

\* The decimal text of the integers the payloads use as loc.
DecimalText(n) == CASE n = 0 -> "0" [] n = 12 -> "12" [] n = 1205 -> "1205"

\* One detail record of the payload as "<loc>: <msg> (<type>)".
RenderedRecord(d) ==
    (IF IsStr(Member(d, "loc")) THEN Member(d, "loc").str
     ELSE DecimalText(Member(d, "loc").num))
        \o ": " \o Member(d, "msg").str \o " (" \o Member(d, "type").str \o ")"

\* The records joined by single newlines.
RECURSIVE JoinedRecords(_)
JoinedRecords(ds) ==
    IF ds = << >> THEN ""
    ELSE IF Len(ds) = 1 THEN RenderedRecord(ds[1])
    ELSE RenderedRecord(ds[1]) \o "\n" \o JoinedRecords(Tail(ds))

\* C9: an OpenAI error renders as its detail records in source order, each
\* "<loc>: <msg> (<type>)" with loc the string itself or the decimal integer,
\* separated by exactly one newline, none before the first or after the
\* last; {loc: "body", msg: "bad", type: "value_error"} alone renders as
\* "body: bad (value_error)".
C9_RenderedDetail ==
    (call.fn = "fmt" /\ ShapeOpenAIError(call.text)) =>
        /\ result.string = JoinedRecords(DetailsOf(call.text))
        /\ call.self.detail = <<[loc |-> [String |-> "body"], msg |-> "bad",
                                 type |-> "value_error"]>>
             => result.string = "body: bad (value_error)"

\* Two records, the second with an integer loc, rendered on two lines.
C9_Witness ==
    /\ call.fn = "fmt"
    /\ ShapeOpenAIError(call.text)
    /\ result.string = "body: bad (value_error)\n1205: worse (type_error)"

\* C10: for Ollama and OpenAi the success shape is tried first and the error
\* shape second: a payload of both shapes yields the generations, a JSON
\* payload of neither shape is a deserialization failure, and the other
\* backend's success object is of neither shape.
C10_SuccessThenErrorElseFailure ==
    (call.fn = "parse_generations" /\ call.text # Malformed) =>
        LET backend == Selected(call.adaptor)
            text == call.text
        IN /\ backend = "Ollama" =>
                /\ ShapeOllamaGeneration(text) => IsOk(result)
                /\ (~ShapeOllamaGeneration(text) /\ ShapeError(text)) =>
                        (IsErr(result) /\ result.Err = "Ollama")
                /\ (~ShapeOllamaGeneration(text) /\ ~ShapeError(text)) =>
                        result = [Err |-> "SerdeJson"]
           /\ backend = "OpenAi" =>
                /\ ShapeOpenAIGeneration(text) => IsOk(result)
                /\ (~ShapeOpenAIGeneration(text) /\ ShapeOpenAIError(text)) =>
                        (IsErr(result) /\ result.Err = "OpenAI")
                /\ (~ShapeOpenAIGeneration(text) /\ ~ShapeOpenAIError(text)) =>
                        result = [Err |-> "SerdeJson"]

====
